---- MODULE Spec2Model ----
(***************************************************************************)
(* Session / context lifecycle of the customer-support chat backend:       *)
(* SessionManager (in-memory cache + MongoDB collections, one              *)
(* asyncio.Lock) and the /query orchestration of app/api/routes.py.        *)
(*                                                                         *)
(* Every request is an asyncio task.  A task only loses control at an      *)
(* await that suspends: a store call, a sleep, or a lock that is held.     *)
(* A label of a task (pc) is such a point; an action runs the code from    *)
(* the resumption at that label up to the next one.  A store call takes    *)
(* effect when the task awaiting it resumes.  asyncio.Lock is not          *)
(* re-entrant: a task that awaits the lock it holds waits for ever.        *)
(***************************************************************************)
EXTENDS Integers, Sequences, FiniteSets, TLC

\* ---------------------------------------------------------------- bounds
NumTasks == 2
MaxSessions == 2
MaxTime == 2
MaxConvs == 2
MaxNotify == 1
MaxHist == 3
MaxMemory == 2

\* timedelta(days=365*10), in clock ticks of the model (one tick = ten years)
ExpirationDelta == 1
\* LLMClient(max_retries=3, retry_delay=2.0)
max_retries == 3
retry_delay == 2

Tasks == 1..NumTasks
SessionIds == 1..MaxSessions
Queries == {"hours", "other"}

VARIABLES
    sessions,                  \* self._sessions : session_id -> Session
    lock,                      \* self._lock : 0 (free) or the task holding it
    sessions_collection,       \* MongoDB sessions : _id -> document
    conversations_collection,  \* MongoDB conversations, in insertion order
    now,                       \* datetime.utcnow()
    next_uuid,                 \* uuid4(): the next identifier never handed out
    notify_tasks,              \* asyncio.create_task(notify_support_team(..)) not yet run
    last_notify,               \* how the notification task that ran last ended
    tasks,                     \* the request tasks: label, call stack, locals
    lastDone,                  \* the task whose call returned most recently
    faq_loads,                 \* json.load of the FAQ file done well, in this process
    call                       \* a call of one of the pure functions, outside any request

vars == <<sessions, lock, sessions_collection, conversations_collection, now,
          next_uuid, notify_tasks, last_notify, tasks, lastDone, faq_loads, call>>

\* ------------------------------------------------------------ data model
NoText == [k |-> "", q |-> "", h |-> <<>>]
UserText(q) == [k |-> "user", q |-> q, h |-> <<>>]
BotText(r) == [k |-> "bot", q |-> r, h |-> <<>>]
\* the (user_query, bot_response) pairs direct callers of add_to_conversation pass
AddTurns == {<<UserText("hours"), BotText("r1")>>, <<UserText("other"), BotText("r2")>>}

\* class Session; NoSession stands for a key missing from the dictionary
Session(created, history) == [created_at |-> created, query_history |-> history]
NoSession == [created_at |-> -1, query_history |-> <<>>]

\* a document of the sessions collection; a field of -1 is a missing field
NoDoc == [present |-> FALSE, created_at |-> -1, last_active_at |-> -1,
          contextual_memory |-> <<>>]

\* what a call gives back to its caller
ResNone == [k |-> "None", sid |-> 0, created_at |-> -1, h |-> <<>>,
            text |-> NoText, esc |-> FALSE, list |-> {}, src |-> ""]
\* a Session handed back, and where get_session had it from
ResSession(id, s, src) ==
    [ResNone EXCEPT !.k = "Session", !.sid = id, !.created_at = s.created_at,
                    !.h = s.query_history, !.src = src]
ResError(e) == [ResNone EXCEPT !.k = e]
ResHistory(h) == [ResNone EXCEPT !.k = "history", !.h = h]
ResList(l) == [ResNone EXCEPT !.k = "sessions", !.list = l]
ResSummary(summary_text) == [ResNone EXCEPT !.k = "SummaryResponse", !.text = summary_text]
ResResponse(text, id, escalated) ==
    [ResNone EXCEPT !.k = "QueryResponse", !.text = text, !.sid = id, !.esc = escalated]

NoChain == [k |-> "", at |-> -1]

IdleTask ==
    [pc |-> "idle", stack |-> <<>>, sid |-> 0, uq |-> NoText, br |-> NoText,
     res |-> ResNone, doc |-> NoDoc, loaded |-> <<>>, hist |-> <<>>, live |-> FALSE,
     ts |-> -1, response_text |-> NoText,
     attempt |-> 0, delay |-> 0, raw |-> NoText, faq_calls |-> 0, notified |-> 0,
     esc |-> FALSE, snap |-> {}, thr |-> -1, ctx |-> <<>>, initialized |-> FALSE,
     summary_text |-> NoText, existing_memory |-> <<>>,
     appended |-> 0, chain |-> NoChain]

Front(s) == SubSeq(s, 1, Len(s) - 1)
Last(s) == s[Len(s)]
OpOf(tr) == IF tr.stack = <<>> THEN "" ELSE tr.stack[1]

\* ------------------------------------------- the conversations collection
\* conversations_collection.find({"session_id": id})
EntriesOf(convs, id) == SelectSeq(convs, LAMBDA e : e.session_id = id)

\* .sort("timestamp"): insertion of each entry behind those not newer than it
RECURSIVE SortByTimestamp(_)
SortByTimestamp(s) ==
    IF s = <<>> THEN <<>>
    ELSE LET rest == SortByTimestamp(Front(s))
             e == Last(s)
             keep == SelectSeq(rest, LAMBDA x : x.timestamp <= e.timestamp)
             move == SelectSeq(rest, LAMBDA x : x.timestamp > e.timestamp)
         IN keep \o <<e>> \o move

RECURSIVE FlattenResponseFirst(_)
FlattenResponseFirst(docs) ==
    IF docs = <<>> THEN <<>>
    ELSE <<docs[1].bot_response, docs[1].user_query>> \o FlattenResponseFirst(Tail(docs))

\* the loop "for entry in conversation_docs": user_query, then bot_response
RECURSIVE Flatten(_)
Flatten(docs) ==
    IF docs = <<>> THEN <<>>
    ELSE <<docs[1].user_query, docs[1].bot_response>> \o Flatten(Tail(docs))

LoadHistory(convs, id) == Flatten(SortByTimestamp(EntriesOf(convs, id)))

\* --------------------------------------------------------------- strings
\* A str the code looks into is the sequence of its characters.
LowerCase == <<"a", "b", "c", "d", "e", "f", "g", "h", "i", "j", "k", "l", "m", "n", "o", "p", "q", "r", "s", "t", "u", "v", "w", "x", "y", "z">>
UpperCase == <<"A", "B", "C", "D", "E", "F", "G", "H", "I", "J", "K", "L", "M", "N", "O", "P", "Q", "R", "S", "T", "U", "V", "W", "X", "Y", "Z">>
\* str.lower(), and the folding of re.IGNORECASE, on one character
lower(c) ==
    IF \E i \in 1..26 : UpperCase[i] = c
    THEN LowerCase[CHOOSE i \in 1..26 : UpperCase[i] = c]
    ELSE c
upper(c) ==
    IF \E i \in 1..26 : LowerCase[i] = c
    THEN UpperCase[CHOOSE i \in 1..26 : LowerCase[i] = c]
    ELSE c
Lowered(str) == [j \in 1..Len(str) |-> lower(str[j])]
Uppered(str) == [j \in 1..Len(str) |-> upper(str[j])]
\* "sub in str"
Occurs(sub, str) ==
    \E i \in 0..(Len(str) - Len(sub)) : SubSeq(str, i + 1, i + Len(sub)) = sub
\* re.compile(pattern, re.IGNORECASE).search(str), pattern without metacharacters
PatternSearch(pattern, str) ==
    \E i \in 0..(Len(str) - Len(pattern)) :
        \A j \in 1..Len(pattern) : lower(str[i + j]) = lower(pattern[j])

\* ------------------------------------------------ pure parts of the code
\* str.strip(): the whitespace at both ends taken off
Whitespace == {" "}
RECURSIVE LStrip(_)
LStrip(str) ==
    IF str # <<>> /\ str[1] \in Whitespace THEN LStrip(Tail(str)) ELSE str
RECURSIVE RStrip(_)
RStrip(str) ==
    IF str # <<>> /\ str[Len(str)] \in Whitespace THEN RStrip(Front(str)) ELSE str
Strip(str) == RStrip(LStrip(str))

\* faq_handler.py 81: the least score of an accepted fuzzy match
FuzzyThreshold == 75
\* a question of the FAQ table with its answer; the table keeps the order of
\* the JSON object (dict order)
FaqEntry(question, answer) == [question |-> question, answer |-> answer]
FaqText(answer) == [k |-> "faq", q |-> answer, h |-> <<>>]
\* process.extractOne: the questions of the highest score (0 for no question)
ExtractOne(scores) ==
    IF scores = <<>> THEN {0}
    ELSE {i \in DOMAIN scores : \A j \in DOMAIN scores : scores[j] <= scores[i]}

\* the fuzzy match accepted only above the threshold
get_faq_answerAboveOnly(faq, query, scores, best) ==
    LET query_trimmed == Strip(query)
        exact == {i \in DOMAIN faq : Lowered(faq[i].question) = Lowered(query_trimmed)}
    IN IF exact # {}
       THEN FaqText(faq[CHOOSE i \in exact : \A j \in exact : i <= j].answer)
       ELSE IF faq # <<>> /\ scores[best] > FuzzyThreshold
       THEN FaqText(faq[best].answer)
       ELSE NoText

\* faq_handler.py 68-90: scores are the scores of the scorer for the trimmed
\* query and each question, best the question extractOne gives; NoText is None
get_faq_answer(faq, query, scores, best) ==
    LET query_trimmed == Strip(query)
        exact == {i \in DOMAIN faq : Lowered(faq[i].question) = Lowered(query_trimmed)}
    IN IF exact # {}
       THEN FaqText(faq[CHOOSE i \in exact : \A j \in exact : i <= j].answer)
       ELSE IF faq # <<>> /\ scores[best] >= FuzzyThreshold
       THEN FaqText(faq[best].answer)
       ELSE NoText

\* FAQHandler.faq_data (app/data/faqs.json) of the requests, the characters
\* of their two queries and the scores the scorer gives these
faq_data == <<FaqEntry(<<"H", "o", "u", "r", "s">>, "open 9 to 5")>>
QuerySpelling ==
    [x \in Queries |-> IF x = "hours" THEN <<" ", "h", "o", "u", "r", "s">> ELSE <<"o", "t", "h", "e", "r">>]
QueryScores == [x \in Queries |-> IF x = "hours" THEN <<100>> ELSE <<40>>]
\* routes.py 58: faq_handler.get_faq_answer(request.query) for the queries of
\* the requests
FaqAnswers ==
    [query \in Queries |->
        get_faq_answer(faq_data, QuerySpelling[query], QueryScores[query],
                       CHOOSE best \in ExtractOne(QueryScores[query]) : TRUE)]
FaqAnswerFor(query) == FaqAnswers[query]

\* what the model collaborator can give: a text, or a failure of the call
LlmText(x) == [k |-> "llm", q |-> x, h |-> <<>>]
LlmOutcomes == {LlmText("an answer"), LlmText("i don't know"), [NoText EXCEPT !.k = "fail"]}
\* the characters of the two texts
Spelling ==
    [x \in {"an answer", "i don't know"} |->
        IF x = "an answer" THEN <<"A", "n", " ", "a", "n", "s", "w", "e", "r", ".">>
        ELSE <<"I", " ", "d", "o", "n", "'", "t", " ", "k", "n", "o", "w", " ", "t", "h", "a", "t", ".">>]
ESCALATION_TRIGGER_PHRASES ==
    {<<"i", "'", "m", " ", "u", "n", "a", "b", "l", "e", " ", "t", "o", " ", "a", "n", "s", "w", "e", "r">>,
     <<"i", " ", "d", "o", "n", "'", "t", " ", "k", "n", "o", "w">>,
     <<"p", "l", "e", "a", "s", "e", " ", "c", "o", "n", "t", "a", "c", "t", " ", "s", "u", "p", "p", "o", "r", "t">>,
     <<"e", "s", "c", "a", "l", "a", "t", "e">>,
     <<"s", "o", "r", "r", "y", ",", " ", "i", " ", "c", "a", "n", "n", "o", "t", " ", "a", "s", "s", "i", "s", "t", " ", "w", "i", "t", "h", " ", "t", "h", "a", "t">>,
     <<"n", "o", "t", " ", "s", "u", "r", "e">>,
     <<"c", "o", "u", "l", "d", " ", "y", "o", "u", " ", "p", "l", "e", "a", "s", "e", " ", "c", "l", "a", "r", "i", "f", "y">>,
     <<"u", "n", "a", "b", "l", "e", " ", "t", "o", " ", "h", "e", "l", "p">>,
     <<"c", "a", "n", "'", "t", " ", "h", "e", "l", "p">>,
     <<"t", "r", "y", " ", "t", "o", " ", "h", "e", "l", "p">>,
     <<"c", "l", "a", "r", "i", "f", "y", " ", "o", "r", " ", "r", "e", "p", "h", "r", "a", "s", "e", " ", "y", "o", "u", "r", " ", "q", "u", "e", "s", "t", "i", "o", "n", ":">>,
     <<"d", "o", " ", "n", "o", "t", " ", "h", "a", "v", "e", " ", "t", "h", "a", "t", " ", "i", "n", "f", "o", "r", "m", "a", "t", "i", "o", "n">>,
     <<"i", "'", "m", " ", "h", "e", "r", "e", " ", "t", "o", " ", "a", "s", "s", "i", "s", "t", " ", "s", "p", "e", "c", "i", "f", "i", "c", "a", "l", "l", "y", " ", "w", "i", "t", "h", " ", "q", "u", "e", "s", "t", "i", "o", "n", "s", " ", "a", "b", "o", "u", "t", " ", "h", "i", "m", "a", "n", "s", "h", "u">>,
     <<"f", "o", "r", " ", "o", "t", "h", "e", "r", " ", "t", "o", "p", "i", "c", "s", ",", " ", "i", " ", "m", "a", "y", " ", "h", "a", "v", "e", " ", "l", "i", "m", "i", "t", "e", "d", " ", "k", "n", "o", "w", "l", "e", "d", "g", "e">>,
     <<"p", "l", "e", "a", "s", "e", " ", "c", "l", "a", "r", "i", "f", "y", " ", "o", "r", " ", "a", "s", "k", " ", "a", "b", "o", "u", "t", " ", "h", "i", "m", "a", "n", "s", "h", "u">>}
fallback_indicators ==
    {<<"s", "o", "r", "r", "y">>,
     <<"u", "n", "a", "b", "l", "e", " ", "t", "o", " ", "h", "e", "l", "p">>,
     <<"e", "x", "p", "e", "r", "t", "i", "s", "e", " ", "i", "s", " ", "l", "i", "m", "i", "t", "e", "d">>,
     <<"p", "l", "e", "a", "s", "e", " ", "c", "l", "a", "r", "i", "f", "y">>}
\* prompts.py 56-58: the search of every compiled pattern
is_unsatisfactory(response_text) ==
    \E pattern \in ESCALATION_TRIGGER_PHRASES : PatternSearch(pattern, response_text)
\* llm_integration.py 67: is_unsatisfactory(response_text) for the texts of
\* the model collaborator
TextIsUnsatisfactory == [x \in DOMAIN Spelling |-> is_unsatisfactory(Spelling[x])]
\* prompts.py 60-63: the line is_unsatisfactory prints when no pattern is found
WritesFallbackLine(response_text) ==
    /\ ~is_unsatisfactory(response_text)
    /\ \E indicator \in fallback_indicators : Occurs(indicator, Lowered(response_text))

EscalatedText == [k |-> "escalated", q |-> "Your query has been escalated", h |-> <<>>]
ApologyText == [k |-> "apology", q |-> "Sorry, I'm having trouble", h |-> <<>>]

\* prompts.py 73-79: the system message
system_content == [k |-> "system", q |-> "You are the personal assistant of", h |-> <<>>]
Message(role, content) == [role |-> role, content |-> content]

\* the item without a reply left out
RECURSIVE HistoryMessagesDropsUnpaired(_)
HistoryMessagesDropsUnpaired(conversation_history) ==
    IF Len(conversation_history) < 2 THEN <<>>
    ELSE <<Message("user", conversation_history[1]),
           Message("assistant", conversation_history[2])>>
         \o HistoryMessagesDropsUnpaired(SubSeq(conversation_history, 3,
                                                Len(conversation_history)))

\* prompts.py 82-89: the loop over the history in steps of two
RECURSIVE HistoryMessages(_)
HistoryMessages(conversation_history) ==
    IF conversation_history = <<>> THEN <<>>
    ELSE IF Len(conversation_history) >= 2
    THEN <<Message("user", conversation_history[1]),
           Message("assistant", conversation_history[2])>>
         \o HistoryMessages(SubSeq(conversation_history, 3, Len(conversation_history)))
    ELSE <<Message("user", conversation_history[1])>>

\* prompts.py 68-94
build_conversational_prompt(user_query, conversation_history) ==
    <<Message("system", system_content)>>
    \o HistoryMessages(conversation_history)
    \o <<Message("user", user_query)>>

\* the lines of an escalation note: a fixed line, f"User: {user_msg}",
\* f"Bot: {bot_msg}"
Line(x) == [k |-> "line", q |-> x, h |-> <<>>]
UserLine(user_msg) == [k |-> "User: ", q |-> "", h |-> <<user_msg>>]
BotLine(bot_msg) == [k |-> "Bot: ", q |-> "", h |-> <<bot_msg>>]
NoReply == Line("<No reply>")

\* range(0, len(conversation_history) - 1, 2): the item without a reply left out
RECURSIVE ContextLinesDropsUnpaired(_)
ContextLinesDropsUnpaired(conversation_history) ==
    IF Len(conversation_history) < 2 THEN <<>>
    ELSE <<UserLine(conversation_history[1]), BotLine(conversation_history[2]), Line("")>>
         \o ContextLinesDropsUnpaired(SubSeq(conversation_history, 3,
                                             Len(conversation_history)))

\* escalation_handler.py 40-45: the loop over the history in steps of two
RECURSIVE ContextLines(_)
ContextLines(conversation_history) ==
    IF conversation_history = <<>> THEN <<>>
    ELSE <<UserLine(conversation_history[1]),
           BotLine(IF Len(conversation_history) >= 2 THEN conversation_history[2]
                   ELSE NoReply),
           Line("")>>
         \o ContextLines(SubSeq(conversation_history, 3, Len(conversation_history)))

\* escalation_handler.py 29-50: the note is its lines ("\n".join(note_lines))
create_escalation_note(user_query, conversation_history) ==
    [k |-> "note", q |-> "",
     h |-> <<Line("=== Escalation Alert ==="),
             Line("An AI customer support escalation has been triggered."),
             Line(""),
             Line("User Query:"),
             user_query,
             Line(""),
             Line("Conversation Context (most recent messages last):")>>
           \o ContextLines(conversation_history)
           \o <<Line("Recommended Action: Escalate this issue to a human customer support agent."),
                Line("=======================")>>]

\* ------------------------------------------------------ the machine state
\* The part of the state that the code between two awaits can change.
Mach == [tasks |-> tasks, lock |-> lock, sessions |-> sessions,
         notify_tasks |-> notify_tasks, lastDone |-> lastDone, faq_loads |-> faq_loads]

\* a list a task holds by reference (session.query_history), read now
CurHist(m, tr) ==
    IF tr.live THEN m.sessions[tr.sid].query_history ELSE tr.hist

\* the Session object of id leaves the dictionary: the tasks holding its list
\* keep the object as it is now
Detach(m, id) ==
    [m EXCEPT !.tasks = [u \in Tasks |->
        IF m.tasks[u].live /\ m.tasks[u].sid = id
        THEN [m.tasks[u] EXCEPT !.live = FALSE,
                                !.hist = m.sessions[id].query_history]
        ELSE m.tasks[u]]]

\* the outermost call of a task returns (or raises) to the transport layer.
\* A Session or a cached list handed back is the object in the cache, not a copy;
\* of the locals only what the caller passed and was given is kept.
Finish(m, t, val) ==
    LET tr == m.tasks[t]
        isQuery == OpOf(tr) = "query"
    IN
    [m EXCEPT !.tasks[t] = [IdleTask EXCEPT
                  !.pc = "done", !.stack = <<OpOf(tr)>>,
                  !.sid = tr.sid,
                  !.uq = IF isQuery THEN tr.uq ELSE NoText,
                  !.br = IF isQuery THEN tr.br ELSE NoText,
                  !.appended = tr.appended, !.chain = tr.chain, !.thr = tr.thr,
                  !.attempt = tr.attempt, !.raw = tr.raw,
                  !.faq_calls = tr.faq_calls, !.notified = tr.notified,
                  !.res = IF val.k \in {"Session", "history_live"}
                          THEN [val EXCEPT !.h = <<>>] ELSE val],
              !.lastDone = t]

\* a callee is entered: its name is pushed and the task stands at its first label
Call(m, t, fn, label) ==
    [m EXCEPT !.tasks[t].stack = @ \o <<fn>>, !.tasks[t].pc = label]

\* --------------------------------------------- handle_query between awaits
\* the model's own text persisted, the note returned
GeneratedPersistModelText(m, t, text, escalated) ==
    LET tr == m.tasks[t]
        response_text ==
            IF escalated THEN create_escalation_note(tr.uq, CurHist(m, tr)) ELSE text
        m1 == [m EXCEPT !.tasks[t].response_text = response_text,
                        !.tasks[t].br = text, !.tasks[t].esc = escalated,
                        !.tasks[t].stack = <<"query">>,
                        !.tasks[t].notified = IF escalated THEN @ + 1 ELSE @,
                        !.notify_tasks = IF escalated THEN @ + 1 ELSE @]
    IN Call(m1, t, "add", "ac_lock")

\* escalated, and the canned text of generate_response left as the response
GeneratedKeepsCannedText(m, t, text, escalated) ==
    LET m1 == [m EXCEPT !.tasks[t].response_text = text,
                        !.tasks[t].br = text, !.tasks[t].esc = escalated,
                        !.tasks[t].stack = <<"query">>,
                        !.tasks[t].notified = IF escalated THEN @ + 1 ELSE @,
                        !.notify_tasks = IF escalated THEN @ + 1 ELSE @]
    IN Call(m1, t, "add", "ac_lock")

\* routes.py 76-87: the text of generate_response, the escalation note put in
\* its place, the notification task, then the call of
\* add_to_conversation(session.session_id, request.query, response_text)
Generated(m, t, text, escalated) ==
    LET tr == m.tasks[t]
        response_text ==
            IF escalated THEN create_escalation_note(tr.uq, CurHist(m, tr)) ELSE text
        m1 == [m EXCEPT !.tasks[t].response_text = response_text,
                        !.tasks[t].br = response_text, !.tasks[t].esc = escalated,
                        !.tasks[t].stack = <<"query">>,
                        !.tasks[t].notified = IF escalated THEN @ + 1 ELSE @,
                        !.notify_tasks = IF escalated THEN @ + 1 ELSE @]
    IN Call(m1, t, "add", "ac_lock")

\* the failure of the last turn raised through generate_response
LlmAttemptRaises(m, t, out) ==
    LET tr == m.tasks[t]
        m1 == [m EXCEPT !.tasks[t].raw = out]
    IN
    IF out.k = "fail"
    THEN IF tr.attempt < max_retries
         THEN [m1 EXCEPT !.tasks[t].pc = "llm_sleep"]
         ELSE Finish(m1, t, ResError("Exception"))
    ELSE IF TextIsUnsatisfactory[out.q]
         THEN Generated(m1, t, EscalatedText, TRUE)
         ELSE Generated(m1, t, out, FALSE)

\* range(1, max_retries + 2): one turn too many
LlmAttemptOneMore(m, t, out) ==
    LET tr == m.tasks[t]
        m1 == [m EXCEPT !.tasks[t].raw = out]
    IN
    IF out.k = "fail"
    THEN IF tr.attempt <= max_retries
         THEN [m1 EXCEPT !.tasks[t].pc = "llm_sleep"]
         ELSE Generated(m1, t, ApologyText, FALSE)
    ELSE IF TextIsUnsatisfactory[out.q]
         THEN Generated(m1, t, EscalatedText, TRUE)
         ELSE Generated(m1, t, out, FALSE)

\* one turn of the loop of _retry_api_call inside generate_response; attempt
\* is the number of this turn and out what its model call gives.  A failure
\* before the last turn goes to asyncio.sleep(delay); the failure of the last
\* turn is raised again and becomes the apology of generate_response.
LlmAttempt(m, t, out) ==
    LET tr == m.tasks[t]
        m1 == [m EXCEPT !.tasks[t].raw = out]
    IN
    IF out.k = "fail"
    THEN IF tr.attempt < max_retries
         THEN [m1 EXCEPT !.tasks[t].pc = "llm_sleep"]
         ELSE Generated(m1, t, ApologyText, FALSE)
    ELSE IF TextIsUnsatisfactory[out.q]
         THEN Generated(m1, t, EscalatedText, TRUE)
         ELSE Generated(m1, t, out, FALSE)

\* faq_handler.py 55-61, in the FAQHandler() that get_faq_handler (routes.py
\* 23-24) has built for this request: the table is read from the file when
\* this handler has not read it yet.  The file is there and well formed.
LoadFaq(m, t) ==
    IF m.tasks[t].initialized THEN m
    ELSE [m EXCEPT !.tasks[t].initialized = TRUE, !.faq_loads = @ + 1]

\* the missing session taken for a session: no 404
AfterResolveNo404(m, t, val) ==
    LET tr == m.tasks[t]
        faq_answer == FaqAnswerFor(tr.uq.q)
        m1 == [LoadFaq(m, t) EXCEPT !.tasks[t].stack = <<"query">>,
                                    !.tasks[t].faq_calls = @ + 1]
    IN IF val.k \notin {"None", "Session"} THEN Finish(m, t, val)
       ELSE IF faq_answer # NoText /\ faq_answer.q # ""
       THEN Call([m1 EXCEPT !.tasks[t].response_text = faq_answer,
                            !.tasks[t].br = faq_answer, !.tasks[t].esc = FALSE],
                 t, "add", "ac_lock")
       ELSE Call(m1, t, "history", "gh_lock")

\* the FAQ answer found and still the history read for a model call
AfterResolveFaqThenModel(m, t, val) ==
    LET m1 == [LoadFaq(m, t) EXCEPT !.tasks[t].sid = val.sid,
                                    !.tasks[t].stack = <<"query">>,
                                    !.tasks[t].faq_calls = @ + 1]
    IN IF val.k = "None" THEN Finish(m, t, ResError("HTTP404"))
       ELSE IF val.k # "Session" THEN Finish(m, t, val)
       ELSE Call(m1, t, "history", "gh_lock")

\* routes.py 50-65: after get_session or create_session; "if faq_answer" takes
\* None and the empty answer for no answer
AfterResolve(m, t, val) ==
    LET tr == m.tasks[t]
        faq_answer == FaqAnswerFor(tr.uq.q)
        m1 == [LoadFaq(m, t) EXCEPT !.tasks[t].sid = val.sid,
                                    !.tasks[t].stack = <<"query">>,
                                    !.tasks[t].faq_calls = @ + 1]
    IN IF val.k = "None" THEN Finish(m, t, ResError("HTTP404"))
       ELSE IF val.k # "Session" THEN Finish(m, t, val)
       ELSE IF faq_answer # NoText /\ faq_answer.q # ""
       THEN Call([m1 EXCEPT !.tasks[t].response_text = faq_answer,
                            !.tasks[t].br = faq_answer, !.tasks[t].esc = FALSE],
                 t, "add", "ac_lock")
       ELSE Call(m1, t, "history", "gh_lock")

\* routes.py 65-69: after get_conversation_history
AfterHistory(m, t, val) ==
    Call([m EXCEPT !.tasks[t].hist = val.h, !.tasks[t].live = (val.k = "history_live"),
                   !.tasks[t].stack = <<"query">>],
         t, "memory", "gm_find")

\* routes.py 69-74: after get_contextual_memory, up to the first model call
AfterMemory(m, t, val, out) ==
    LET tr == m.tasks[t]
        full_context == val.h \o CurHist(m, tr)
    IN LlmAttempt([m EXCEPT !.tasks[t].ctx = full_context, !.tasks[t].attempt = 1,
                            !.tasks[t].delay = retry_delay,
                            !.tasks[t].stack = <<"query">>], t, out)

\* routes.py 87-97: after add_to_conversation
AfterAdd(m, t, val) ==
    LET tr == m.tasks[t] IN
    IF val.k = "None" THEN Finish(m, t, ResResponse(tr.response_text, tr.sid, tr.esc))
    ELSE Finish(m, t, val)

\* -------------------------------------------------------------- returns
\* callee returns val into the frame on top of stk (the stack without callee)
RetOuter(m, t, stk, callee, val, out) ==
    IF stk = <<>> THEN Finish(m, t, val)
    ELSE CASE callee \in {"get", "create"} -> AfterResolve(m, t, val)
           [] callee = "history" -> AfterHistory(m, t, val)
           [] callee = "memory" -> AfterMemory(m, t, val, out)
           [] OTHER -> AfterAdd(m, t, val)

\* session_manager.py 112-119 of add_to_conversation: both appends, the lock
\* released, the timestamp of the conversation document taken
AppendTurnQueryTwice(m, t, stk) ==
    LET tr == m.tasks[t] IN
    [m EXCEPT !.sessions[tr.sid].query_history = @ \o <<tr.uq, tr.uq>>,
              !.lock = 0,
              !.tasks[t].stack = stk, !.tasks[t].pc = "ac_insert",
              !.tasks[t].ts = now, !.tasks[t].appended = @ + 1]
AppendTurn(m, t, stk) ==
    LET tr == m.tasks[t] IN
    [m EXCEPT !.sessions[tr.sid].query_history = @ \o <<tr.uq, tr.br>>,
              !.lock = 0,
              !.tasks[t].stack = stk, !.tasks[t].pc = "ac_insert",
              !.tasks[t].ts = now, !.tasks[t].appended = @ + 1]

\* session_manager.py 108-113: get_session returns into add_to_conversation
RetToAdd(m, t, stk, val, out) ==
    IF val.k = "Session" THEN AppendTurn(m, t, stk)
    ELSE RetOuter([m EXCEPT !.lock = 0], t, Front(stk), "add",
                  IF val.k = "None" THEN ResError("ValueError") ELSE val, out)

RetFromGet(m, t, stk, val, out) ==
    IF stk # <<>> /\ Last(stk) = "add" THEN RetToAdd(m, t, stk, val, out)
    ELSE RetOuter(m, t, stk, "get", val, out)

\* session_manager.py 74-75: delete_session returns into get_session, which
\* returns None and leaves the lock
RetFromDelete(m, t, stk, out) ==
    IF stk # <<>> /\ Last(stk) = "get"
    THEN RetFromGet([m EXCEPT !.lock = 0], t, Front(stk), ResNone, out)
    ELSE RetOuter(m, t, stk, "delete", ResNone, out)

\* the machine state after the step of task t
Apply(m) ==
    /\ tasks' = m.tasks
    /\ lock' = m.lock
    /\ sessions' = m.sessions
    /\ notify_tasks' = m.notify_tasks
    /\ lastDone' = m.lastDone
    /\ faq_loads' = m.faq_loads

At(t, label, fn) ==
    /\ tasks[t].pc = label
    /\ Last(tasks[t].stack) = fn
Callers(t) == Front(tasks[t].stack)

\* ------------------------------------------------------- create_session
\* session_manager.py 53-64: the lock taken, the Session put in the cache,
\* then the await of insert_one with the lock held
CsLock(t) ==
    /\ At(t, "cs_lock", "create")
    /\ lock = 0
    /\ Apply([Mach EXCEPT !.lock = t,
                          !.sessions[next_uuid] = Session(now, <<>>),
                          !.tasks[t].sid = next_uuid, !.tasks[t].ts = now,
                          !.tasks[t].pc = "cs_insert"])
    /\ next_uuid' = next_uuid + 1
    /\ UNCHANGED <<sessions_collection, conversations_collection, now, last_notify, call>>

\* the document stamped with the time of the insert, not that of the Session
CsInsertNewStamp(t) ==
    LET tr == tasks[t] IN
    /\ At(t, "cs_insert", "create")
    /\ sessions_collection' = [sessions_collection EXCEPT ![tr.sid] =
           [present |-> TRUE, created_at |-> now, last_active_at |-> now,
            contextual_memory |-> <<>>]]
    /\ Apply(RetOuter([Mach EXCEPT !.lock = 0], t, Callers(t), "create",
                      ResSession(tr.sid, sessions[tr.sid], "new"), NoText))
    /\ UNCHANGED <<conversations_collection, now, next_uuid, last_notify, call>>

\* session_manager.py 65-67: the document is in the store; the lock is left
CsInsert(t) ==
    LET tr == tasks[t] IN
    /\ At(t, "cs_insert", "create")
    /\ sessions_collection' = [sessions_collection EXCEPT ![tr.sid] =
           [present |-> TRUE, created_at |-> tr.ts, last_active_at |-> tr.ts,
            contextual_memory |-> <<>>]]
    /\ Apply(RetOuter([Mach EXCEPT !.lock = 0], t, Callers(t), "create",
                      ResSession(tr.sid, sessions[tr.sid], "new"), NoText))
    /\ UNCHANGED <<conversations_collection, now, next_uuid, last_notify, call>>

\* session_manager.py 53-65 when insert_one raises: the exception leaves the
\* "async with" block, which releases the lock, and goes to the caller; the
\* Session that line 57 put in the cache stays there, the store has no document
CsInsertFails(t) ==
    LET tr == tasks[t] IN
    /\ At(t, "cs_insert", "create")
    /\ Apply(RetOuter([Mach EXCEPT !.lock = 0], t, Callers(t), "create",
                      ResError("PyMongoError"), NoText))
    /\ UNCHANGED <<sessions_collection, conversations_collection, now, next_uuid, last_notify, call>>

\* ---------------------------------------------------------- get_session
\* session_manager.py 73: datetime.utcnow() - session.created_at > self._expiration_delta
Expired(created_at) == now - created_at > ExpirationDelta

\* session_manager.py 70-76: the look in the cache under the lock
GsLock(t) ==
    LET tr == tasks[t]
        session == sessions[tr.sid]
    IN
    /\ At(t, "gs_lock", "get")
    /\ lock = 0
    /\ Apply(IF session # NoSession
             THEN IF Expired(session.created_at)
                  THEN Call([Mach EXCEPT !.lock = t], t, "delete", "ds_lock")
                  ELSE RetFromGet(Mach, t, Callers(t), ResSession(tr.sid, session, "cache"), NoText)
             ELSE [Mach EXCEPT !.tasks[t].pc = "gs_find"])
    /\ UNCHANGED <<sessions_collection, conversations_collection, now, next_uuid, last_notify, call>>

\* session_manager.py 78-80: find_one on the sessions collection
GsFind(t) ==
    LET tr == tasks[t]
        session_doc == sessions_collection[tr.sid]
    IN
    /\ At(t, "gs_find", "get")
    /\ Apply(IF ~session_doc.present
             THEN RetFromGet(Mach, t, Callers(t), ResNone, NoText)
             ELSE [Mach EXCEPT !.tasks[t].doc = session_doc, !.tasks[t].pc = "gs_convs"])
    /\ UNCHANGED <<sessions_collection, conversations_collection, now, next_uuid, last_notify, call>>

\* session_manager.py 82-97: the conversation entries sorted and flattened,
\* the Session built from the document read before
GsConvs(t) ==
    LET tr == tasks[t] IN
    /\ At(t, "gs_convs", "get")
    /\ Apply(IF tr.doc.created_at = -1
             THEN RetFromGet(Mach, t, Callers(t), ResError("KeyError"), NoText)
             ELSE [Mach EXCEPT
                     !.tasks[t].loaded = LoadHistory(conversations_collection, tr.sid),
                     !.tasks[t].pc = "gs_install"])
    /\ UNCHANGED <<sessions_collection, conversations_collection, now, next_uuid, last_notify, call>>

\* session_manager.py 99-102: the loaded Session put in the cache
GsInstall(t) ==
    LET tr == tasks[t]
        loaded_session == Session(tr.doc.created_at, tr.loaded)
        m1 == [Detach(Mach, tr.sid) EXCEPT !.sessions[tr.sid] = loaded_session]
    IN
    /\ At(t, "gs_install", "get")
    /\ lock = 0
    /\ Apply(RetFromGet(m1, t, Callers(t), ResSession(tr.sid, loaded_session, "store"), NoText))
    /\ UNCHANGED <<sessions_collection, conversations_collection, now, next_uuid, last_notify, call>>

\* --------------------------------------------------- add_to_conversation
\* session_manager.py 105-119
AcLock(t) ==
    LET tr == tasks[t] IN
    /\ At(t, "ac_lock", "add")
    /\ lock = 0
    /\ Apply(IF sessions[tr.sid] = NoSession
             THEN Call([Mach EXCEPT !.lock = t], t, "get", "gs_lock")
             ELSE AppendTurn(Mach, t, tr.stack))
    /\ UNCHANGED <<sessions_collection, conversations_collection, now, next_uuid, last_notify, call>>

\* session_manager.py 121-125: the conversation document is in the store
AcInsert(t) ==
    LET tr == tasks[t] IN
    /\ At(t, "ac_insert", "add")
    /\ conversations_collection' = Append(conversations_collection,
           [session_id |-> tr.sid, user_query |-> tr.uq, bot_response |-> tr.br,
            timestamp |-> tr.ts])
    /\ Apply([Mach EXCEPT !.tasks[t].ts = now, !.tasks[t].pc = "ac_update"])
    /\ UNCHANGED <<sessions_collection, now, next_uuid, last_notify, call>>

\* session_manager.py 123-126: update_one of last_active_at, no upsert
AcUpdate(t) ==
    LET tr == tasks[t] IN
    /\ At(t, "ac_update", "add")
    /\ sessions_collection' =
           IF sessions_collection[tr.sid].present
           THEN [sessions_collection EXCEPT ![tr.sid].last_active_at = tr.ts]
           ELSE sessions_collection
    /\ Apply(RetOuter(Mach, t, Callers(t), "add", ResNone, NoText))
    /\ UNCHANGED <<conversations_collection, now, next_uuid, last_notify, call>>

\* ---------------------------------------------- get_conversation_history
\* session_manager.py 129-132: the cached list itself is returned
GhLock(t) ==
    LET tr == tasks[t]
        session == sessions[tr.sid]
    IN
    /\ At(t, "gh_lock", "history")
    /\ lock = 0
    /\ Apply(IF session # NoSession
             THEN RetOuter(Mach, t, Callers(t), "history",
                           [ResHistory(session.query_history) EXCEPT !.k = "history_live"],
                           NoText)
             ELSE [Mach EXCEPT !.tasks[t].pc = "gh_convs"])
    /\ UNCHANGED <<sessions_collection, conversations_collection, now, next_uuid, last_notify, call>>

\* session_manager.py 134-144
GhConvs(t) ==
    LET tr == tasks[t] IN
    /\ At(t, "gh_convs", "history")
    /\ Apply(RetOuter(Mach, t, Callers(t), "history",
                      ResHistory(LoadHistory(conversations_collection, tr.sid)), NoText))
    /\ UNCHANGED <<sessions_collection, conversations_collection, now, next_uuid, last_notify, call>>

\* -------------------------------------------------------- list_sessions
\* session_manager.py 147-151: the cached objects and the threshold
LsLock(t) ==
    /\ At(t, "ls_lock", "list")
    /\ lock = 0
    /\ Apply([Mach EXCEPT
                !.tasks[t].snap = {[sid |-> id, created_at |-> sessions[id].created_at,
                                    src |-> "cache"] :
                                   id \in {i \in SessionIds : sessions[i] # NoSession}},
                !.tasks[t].thr = now - ExpirationDelta,
                !.tasks[t].pc = "ls_find"])
    /\ UNCHANGED <<sessions_collection, conversations_collection, now, next_uuid, last_notify, call>>

\* find({"last_active_at": {"$gte": expiration_threshold}})
FindActiveSince(coll, expiration_threshold) ==
    {id \in SessionIds : /\ coll[id].present
                         /\ coll[id].last_active_at # -1
                         /\ coll[id].last_active_at >= expiration_threshold}

\* session_manager.py 152-163: the documents found, merged behind the cache
LsFind(t) ==
    LET tr == tasks[t]
        db == FindActiveSince(sessions_collection, tr.thr)
        cached_ids == {s.sid : s \in tr.snap}
        db_sessions == {[sid |-> id, created_at |-> sessions_collection[id].created_at,
                         src |-> "store"] : id \in db}
        all_sessions == tr.snap \cup {s \in db_sessions : s.sid \notin cached_ids}
    IN
    /\ At(t, "ls_find", "list")
    /\ Apply(IF \E id \in db : sessions_collection[id].created_at = -1
             THEN RetOuter(Mach, t, Callers(t), "list", ResError("KeyError"), NoText)
             ELSE RetOuter(Mach, t, Callers(t), "list", ResList(all_sessions), NoText))
    /\ UNCHANGED <<sessions_collection, conversations_collection, now, next_uuid, last_notify, call>>

\* ------------------------------------------------------- delete_session
\* session_manager.py 166-168
DsLock(t) ==
    LET tr == tasks[t]
        m1 == IF sessions[tr.sid] # NoSession
              THEN [Detach(Mach, tr.sid) EXCEPT !.sessions[tr.sid] = NoSession]
              ELSE Mach
    IN
    /\ At(t, "ds_lock", "delete")
    /\ lock = 0
    /\ Apply([m1 EXCEPT !.tasks[t].pc = "ds_one"])
    /\ UNCHANGED <<sessions_collection, conversations_collection, now, next_uuid, last_notify, call>>

\* session_manager.py 170: delete_one
DsOne(t) ==
    LET tr == tasks[t] IN
    /\ At(t, "ds_one", "delete")
    /\ sessions_collection' = [sessions_collection EXCEPT ![tr.sid] = NoDoc]
    /\ Apply([Mach EXCEPT !.tasks[t].pc = "ds_many"])
    /\ UNCHANGED <<conversations_collection, now, next_uuid, last_notify, call>>

\* delete_one in the place of delete_many
DsManyFirstOnly(t) ==
    LET tr == tasks[t]
        first == CHOOSE j \in DOMAIN conversations_collection :
                     /\ conversations_collection[j].session_id = tr.sid
                     /\ \A i \in 1..(j - 1) : conversations_collection[i].session_id # tr.sid
    IN
    /\ At(t, "ds_many", "delete")
    /\ conversations_collection' =
           IF EntriesOf(conversations_collection, tr.sid) = <<>>
           THEN conversations_collection
           ELSE SubSeq(conversations_collection, 1, first - 1)
                \o SubSeq(conversations_collection, first + 1, Len(conversations_collection))
    /\ Apply(RetFromDelete(Mach, t, Callers(t), NoText))
    /\ UNCHANGED <<sessions_collection, now, next_uuid, last_notify, call>>

\* session_manager.py 171: delete_many
DsMany(t) ==
    LET tr == tasks[t] IN
    /\ At(t, "ds_many", "delete")
    /\ conversations_collection' =
           SelectSeq(conversations_collection, LAMBDA e : e.session_id # tr.sid)
    /\ Apply(RetFromDelete(Mach, t, Callers(t), NoText))
    /\ UNCHANGED <<sessions_collection, now, next_uuid, last_notify, call>>

\* ------------------------------------------------ get_contextual_memory
\* session_manager.py 35-38, and in handle_query the first model call behind it
GmFind(t) ==
    LET tr == tasks[t]
        memories_docs == sessions_collection[tr.sid]
    IN
    /\ At(t, "gm_find", "memory")
    /\ \E out \in LlmOutcomes :
         Apply(RetOuter(Mach, t, Callers(t), "memory",
                        ResHistory(IF memories_docs.present
                                   THEN memories_docs.contextual_memory ELSE <<>>),
                        out))
    /\ UNCHANGED <<sessions_collection, conversations_collection, now, next_uuid, last_notify, call>>

\* ---------------------------------------------------- summarize_session
\* llm_integration.py 85-100: what summarize_session gives: the summary of the
\* model, or the fixed text after the last failed attempt
SummaryOutcomes ==
    {[k |-> "llm", q |-> "a summary", h |-> <<>>],
     [k |-> "fixed", q |-> "Unable to generate summary at this time.", h |-> <<>>]}
\* session_manager.py 49: f"Summary: {summary_text}"
SummaryEntry(summary_text) == [k |-> "Summary: ", q |-> summary_text.q, h |-> <<>>]

\* routes.py 134: llm_client.summarize_session has returned
SmLlm(t) ==
    /\ At(t, "sm_llm", "summarize")
    /\ \E summary_text \in SummaryOutcomes :
         Apply([Mach EXCEPT !.tasks[t].summary_text = summary_text,
                            !.tasks[t].pc = "sm_find"])
    /\ UNCHANGED <<sessions_collection, conversations_collection, now, next_uuid, last_notify, call>>

\* session_manager.py 48 and 35-38: get_contextual_memory inside
\* store_session_summary
SmFind(t) ==
    LET tr == tasks[t]
        memories_docs == sessions_collection[tr.sid]
    IN
    /\ At(t, "sm_find", "summarize")
    /\ Apply([Mach EXCEPT
                !.tasks[t].existing_memory =
                    IF memories_docs.present THEN memories_docs.contextual_memory ELSE <<>>,
                !.tasks[t].pc = "sm_update"])
    /\ UNCHANGED <<sessions_collection, conversations_collection, now, next_uuid, last_notify, call>>

\* session_manager.py 49-50 and 41-45, routes.py 137: update_one with
\* {"$set": {"contextual_memory": updated_memory}} and upsert=True: where no
\* document has the id, one is inserted that holds the id and this field only
SmUpdate(t) ==
    LET tr == tasks[t]
        updated_memory == tr.existing_memory \o <<SummaryEntry(tr.summary_text)>>
    IN
    /\ At(t, "sm_update", "summarize")
    /\ sessions_collection' =
           IF sessions_collection[tr.sid].present
           THEN [sessions_collection EXCEPT ![tr.sid].contextual_memory = updated_memory]
           ELSE [sessions_collection EXCEPT ![tr.sid] =
                    [NoDoc EXCEPT !.present = TRUE, !.contextual_memory = updated_memory]]
    /\ Apply(Finish(Mach, t, ResSummary(tr.summary_text)))
    /\ UNCHANGED <<conversations_collection, now, next_uuid, last_notify, call>>

\* llm_integration.py 39-40 and 31-33: asyncio.sleep(delay) is over, the delay
\* is doubled and the next turn of the loop makes its call
LlmSleep(t) ==
    /\ At(t, "llm_sleep", "query")
    /\ \E out \in LlmOutcomes :
         Apply(LlmAttempt([Mach EXCEPT !.tasks[t].delay = @ * 2,
                                       !.tasks[t].attempt = @ + 1], t, out))
    /\ UNCHANGED <<sessions_collection, conversations_collection, now, next_uuid, last_notify, call>>

\* escalation_handler.py 52-63: a notification task runs: it logs and prints
\* the note, or an exception of the logging or the print ends it; nobody awaits
\* the task, so the exception stays in the task object
NotifyOutcomes == {"sent", "failed"}
\* a notification that failed is run again
NotifyRunRetries ==
    /\ notify_tasks > 0
    /\ \E outcome \in NotifyOutcomes :
         /\ last_notify' = outcome
         /\ notify_tasks' = IF outcome = "failed" THEN notify_tasks ELSE notify_tasks - 1
    /\ UNCHANGED <<sessions, lock, sessions_collection, conversations_collection,
                   now, next_uuid, tasks, lastDone, faq_loads, call>>

NotifyRun ==
    /\ notify_tasks > 0
    /\ notify_tasks' = notify_tasks - 1
    /\ \E outcome \in NotifyOutcomes : last_notify' = outcome
    /\ UNCHANGED <<sessions, lock, sessions_collection, conversations_collection,
                   now, next_uuid, tasks, lastDone, faq_loads, call>>

\* ------------------------------------------------------ the environment
Idle(u) == tasks[u].pc \in {"idle", "done"}
Quiet == \A u \in Tasks : Idle(u)

\* calls that will still write a conversation entry
Pending ==
    {u \in Tasks : /\ ~Idle(u)
                   /\ OpOf(tasks[u]) \in {"add", "query"}
                   /\ tasks[u].pc # "ac_update"}
RoomForTurn == Len(conversations_collection) + Cardinality(Pending) < MaxConvs
\* calls that will still draw an identifier
Creating == {u \in Tasks : tasks[u].pc = "cs_lock"}
RoomForSession == next_uuid + Cardinality(Creating) <= MaxSessions

\* the call made right after the last one returned: delete(id) after delete(id),
\* get(id) after the create that returned id
ChainOf(fn, id) ==
    LET p == IF lastDone = 0 THEN IdleTask ELSE tasks[lastDone] IN
    IF p.pc # "done" \/ ~Quiet THEN NoChain
    ELSE IF fn = "delete" /\ OpOf(p) = "delete" /\ p.sid = id
         THEN [k |-> "delete_again", at |-> -1]
    ELSE IF fn = "get" /\ OpOf(p) = "create" /\ p.res.k = "Session" /\ p.res.sid = id
         THEN [k |-> "get_created", at |-> p.res.created_at]
    ELSE NoChain

Begin(t, tr) ==
    /\ Idle(t)
    /\ tasks' = [tasks EXCEPT ![t] = tr]
    /\ UNCHANGED <<sessions, lock, sessions_collection, conversations_collection,
                   now, next_uuid, notify_tasks, last_notify, lastDone, faq_loads, call>>

\* routes.py 141-145 and 55: a request that calls create_session
StartCreate(t) ==
    /\ RoomForSession
    /\ Begin(t, [IdleTask EXCEPT !.pc = "cs_lock", !.stack = <<"create">>])

\* routes.py 101-106: GET /session/{session_id}
StartGet(t) ==
    \E id \in SessionIds :
        Begin(t, [IdleTask EXCEPT !.pc = "gs_lock", !.stack = <<"get">>, !.sid = id,
                                  !.chain = ChainOf("get", id)])

\* a caller of add_to_conversation(session_id, user_query, bot_response)
StartAdd(t) ==
    /\ RoomForTurn
    /\ \E id \in SessionIds, turn \in AddTurns :
        Begin(t, [IdleTask EXCEPT !.pc = "ac_lock", !.stack = <<"add">>, !.sid = id,
                                  !.uq = turn[1], !.br = turn[2]])

StartHistory(t) ==
    \E id \in SessionIds :
        Begin(t, [IdleTask EXCEPT !.pc = "gh_lock", !.stack = <<"history">>, !.sid = id])

\* routes.py 116-118: GET /sessions
StartList(t) ==
    Begin(t, [IdleTask EXCEPT !.pc = "ls_lock", !.stack = <<"list">>])

StartDelete(t) ==
    \E id \in SessionIds :
        Begin(t, [IdleTask EXCEPT !.pc = "ds_lock", !.stack = <<"delete">>, !.sid = id,
                                  !.chain = ChainOf("delete", id)])

\* calls of store_session_summary that will still write the memory of id
Summarizing(id) == {u \in Tasks : ~Idle(u) /\ OpOf(tasks[u]) = "summarize" /\ tasks[u].sid = id}
RoomForMemory(id) ==
    Len(sessions_collection[id].contextual_memory) + Cardinality(Summarizing(id)) < MaxMemory

\* routes.py 128-134: POST /summarize/{session_id}
StartSummarize(t) ==
    \E id \in SessionIds :
        /\ RoomForMemory(id)
        /\ Begin(t, [IdleTask EXCEPT !.pc = "sm_llm", !.stack = <<"summarize">>, !.sid = id])

\* delete_session(id) of a session that create_session has made and that is
\* in the store
StartDeleteKnown(t) ==
    \E id \in SessionIds :
        /\ sessions_collection[id].present
        /\ Begin(t, [IdleTask EXCEPT !.pc = "ds_lock", !.stack = <<"delete">>, !.sid = id,
                                     !.chain = ChainOf("delete", id)])

\* routes.py 41-55: POST /query, with a session id (get_session) or without
\* (create_session)
StartQuery(t) ==
    /\ RoomForTurn
    /\ notify_tasks < MaxNotify
    /\ \E q \in Queries, id \in {0} \cup SessionIds :
        /\ id = 0 => RoomForSession
        /\ Begin(t, [IdleTask EXCEPT
                       !.pc = IF id = 0 THEN "cs_lock" ELSE "gs_lock",
                       !.stack = IF id = 0 THEN <<"query", "create">> ELSE <<"query", "get">>,
                       !.sid = id, !.uq = UserText(q),
                       !.chain = [k |-> IF id = 0 THEN "new" ELSE "given", at |-> id]])

\* the clock moves on
Tick ==
    /\ now < MaxTime
    /\ now' = now + 1
    /\ UNCHANGED <<sessions, lock, sessions_collection, conversations_collection,
                   next_uuid, notify_tasks, last_notify, tasks, lastDone, faq_loads, call>>

\* session_manager.py 24-32 and 175: the process starts again; the cache and
\* the lock are new, the store keeps what it holds
Restart ==
    /\ \/ \E u \in Tasks : tasks[u].pc # "idle"
       \/ \E id \in SessionIds : sessions[id] # NoSession
    /\ sessions' = [id \in SessionIds |-> NoSession]
    /\ lock' = 0
    /\ tasks' = [u \in Tasks |-> IdleTask]
    /\ notify_tasks' = 0
    /\ last_notify' = ""
    /\ lastDone' = 0
    /\ faq_loads' = 0
    /\ UNCHANGED <<sessions_collection, conversations_collection, now, next_uuid, call>>

\* a call of a pure function: its name, its arguments, and when it has
\* returned (pc = "done") its result; stdout holds what it has printed
NoCall ==
    [fn |-> "", pc |-> "", text |-> <<>>, query |-> NoText, history |-> <<>>,
     faq |-> <<>>, scores |-> <<>>, best |-> 0,
     ok |-> FALSE, messages |-> <<>>, note |-> NoText, answer |-> NoText, stdout |-> <<>>]

Init ==
    /\ call = NoCall
    /\ sessions = [id \in SessionIds |-> NoSession]
    /\ lock = 0
    /\ sessions_collection = [id \in SessionIds |-> NoDoc]
    /\ conversations_collection = <<>>
    /\ now = 0
    /\ next_uuid = 1
    /\ notify_tasks = 0
    /\ last_notify = ""
    /\ tasks = [u \in Tasks |-> IdleTask]
    /\ lastDone = 0
    /\ faq_loads = 0

CreateSteps(t) == CsLock(t) \/ CsInsert(t)
GetSteps(t) == GsLock(t) \/ GsFind(t) \/ GsConvs(t) \/ GsInstall(t)
AddSteps(t) == AcLock(t) \/ AcInsert(t) \/ AcUpdate(t)
HistorySteps(t) == GhLock(t) \/ GhConvs(t)
ListSteps(t) == LsLock(t) \/ LsFind(t)
DeleteSteps(t) == DsLock(t) \/ DsOne(t) \/ DsMany(t)
SummarizeSteps(t) == SmLlm(t) \/ SmFind(t) \/ SmUpdate(t)

\* Tasks reading and extending sessions at once: create_session, get_session,
\* add_to_conversation, get_conversation_history and list_sessions from any
\* number of tasks, and restarts of the process.
Next ==
    \/ \E t \in Tasks :
        \/ StartCreate(t) \/ StartGet(t) \/ StartAdd(t) \/ StartHistory(t) \/ StartList(t)
        \/ CreateSteps(t) \/ GetSteps(t) \/ AddSteps(t) \/ HistorySteps(t) \/ ListSteps(t)
    \/ Restart

Spec == Init /\ [][Next]_vars

\* Concurrent turns: sessions are created and add_to_conversation runs in
\* every task at once.
NextAddTurns ==
    \E t \in Tasks :
        \/ StartCreate(t) \/ StartAdd(t)
        \/ CreateSteps(t) \/ AddSteps(t)

SpecAddTurns == Init /\ [][NextAddTurns]_vars

\* One caller: each call starts when the one before has returned.  Every
\* method of the session manager, the clock, and restarts of the process.
NextSeq ==
    \/ \E t \in {1} :
        \/ StartCreate(t) \/ StartGet(t) \/ StartAdd(t) \/ StartHistory(t) \/ StartList(t)
        \/ StartDelete(t)
        \/ CreateSteps(t) \/ GetSteps(t) \/ AddSteps(t) \/ HistorySteps(t) \/ ListSteps(t)
        \/ DeleteSteps(t)
    \/ Tick
    \/ Restart

SpecSeq == Init /\ [][NextSeq]_vars

\* The POST /query requests of any number of tasks, on new sessions and on
\* given ids, beside the notification tasks and restarts of the process.
NextQuery ==
    \/ \E t \in Tasks :
        \/ StartQuery(t)
        \/ CreateSteps(t) \/ GetSteps(t) \/ GhLock(t) \/ GmFind(t) \/ LlmSleep(t)
        \/ AddSteps(t)
    \/ NotifyRun
    \/ Restart

SpecQuery == Init /\ [][NextQuery]_vars

\* ------------------------------------------------- the pure functions
manager_vars == <<sessions, lock, sessions_collection, conversations_collection, now,
                  next_uuid, notify_tasks, last_notify, tasks, lastDone, faq_loads>>

\* the texts is_unsatisfactory is called on: around a trigger phrase, a
\* trigger phrase in capitals or short of its last character, a fallback
\* indicator, a plain answer or nothing, there is some text or none
Middles ==
    ESCALATION_TRIGGER_PHRASES
    \cup {Uppered(p) : p \in ESCALATION_TRIGGER_PHRASES}
    \cup {Front(p) : p \in ESCALATION_TRIGGER_PHRASES}
    \cup fallback_indicators
    \cup {<<>>, Spelling["an answer"], Spelling["i don't know"]}
ResponseTexts ==
    {pre \o mid \o post : pre \in {<<>>, <<"O", "k", " ">>}, mid \in Middles,
                          post \in {<<>>, <<"!">>}}

\* prompts.py 52-65
IsUnsatisfactoryCall ==
    /\ call.fn = "is_unsatisfactory" /\ call.pc = "call"
    /\ call' = [call EXCEPT
                  !.ok = is_unsatisfactory(call.text),
                  !.stdout = IF WritesFallbackLine(call.text) THEN @ \o <<call.text>> ELSE @,
                  !.pc = "done"]
    /\ UNCHANGED manager_vars

\* the histories the two renderers are called on: every list of up to MaxHist
\* items, of even and of odd length
HistoryItems == {UserText("Hi"), BotText("Hello!")}
Histories == UNION {[1..n -> HistoryItems] : n \in 0..MaxHist}

\* prompts.py 68-94
BuildPromptCall ==
    /\ call.fn = "build_conversational_prompt" /\ call.pc = "call"
    /\ call' = [call EXCEPT
                  !.messages = build_conversational_prompt(call.query, call.history),
                  !.pc = "done"]
    /\ UNCHANGED manager_vars

\* escalation_handler.py 16-50
EscalationNoteCall ==
    /\ call.fn = "create_escalation_note" /\ call.pc = "call"
    /\ call' = [call EXCEPT
                  !.note = create_escalation_note(call.query, call.history),
                  !.pc = "done"]
    /\ UNCHANGED manager_vars

\* the FAQ tables get_faq_answer is called with (none, one and two questions),
\* the queries (a question in another case and with blanks around it, a near
\* miss, another text, nothing) and the scores of the scorer for the questions
FaqTables ==
    {<<>>,
     <<FaqEntry(<<"H", "o", "u", "r", "s">>, "open 9 to 5")>>,
     <<FaqEntry(<<"H", "o", "u", "r", "s">>, "open 9 to 5"), FaqEntry(<<"P", "r", "i", "c", "e">>, "free")>>}
FaqQueries ==
    {<<"h", "o", "u", "r", "s">>, <<" ", " ", "H", "O", "U", "R", "S", " ">>, <<"h", "o", "u", "r">>, <<"p", "r", "i", "c", "e">>, <<"w", "e", "a", "t", "h", "e", "r">>, <<>>}
ScoreValues == {0, 74, 75, 100}

\* faq_handler.py 43-90
FaqAnswerCall ==
    /\ call.fn = "get_faq_answer" /\ call.pc = "call"
    /\ \E best \in ExtractOne(call.scores) :
         call' = [call EXCEPT
                    !.answer = get_faq_answer(call.faq, call.text, call.scores, best),
                    !.best = best,
                    !.pc = "done"]
    /\ UNCHANGED manager_vars

PureCalls ==
    {[NoCall EXCEPT !.fn = "get_faq_answer", !.pc = "call", !.text = query,
                    !.faq = faq, !.scores = scores] :
        query \in FaqQueries,
        <<faq, scores>> \in UNION {{<<f, sc>> : sc \in [DOMAIN f -> ScoreValues]} :
                                   f \in FaqTables}}
    \cup
    {[NoCall EXCEPT !.fn = "is_unsatisfactory", !.pc = "call", !.text = s] :
        s \in ResponseTexts}
    \cup {[NoCall EXCEPT !.fn = fn, !.pc = "call", !.query = UserText(q), !.history = h] :
            fn \in {"build_conversational_prompt", "create_escalation_note"},
            q \in Queries, h \in Histories}

InitPure ==
    /\ call \in PureCalls
    /\ sessions = [id \in SessionIds |-> NoSession]
    /\ lock = 0
    /\ sessions_collection = [id \in SessionIds |-> NoDoc]
    /\ conversations_collection = <<>>
    /\ now = 0
    /\ next_uuid = 1
    /\ notify_tasks = 0
    /\ last_notify = ""
    /\ tasks = [u \in Tasks |-> IdleTask]
    /\ lastDone = 0
    /\ faq_loads = 0

NextPure ==
    \/ IsUnsatisfactoryCall
    \/ BuildPromptCall
    \/ EscalationNoteCall
    \/ FaqAnswerCall

\* The pure functions of the code, each called on every input of a bounded set.
SpecPure == InitPure /\ [][NextPure]_vars

\* The POST /query requests of one client, each sent when the one before has
\* returned, beside the notification tasks and restarts of the process.
NextRequest ==
    \/ \E t \in {1} :
        \/ StartQuery(t)
        \/ CreateSteps(t) \/ GetSteps(t) \/ GhLock(t) \/ GmFind(t) \/ LlmSleep(t)
        \/ AddSteps(t)
    \/ NotifyRun
    \/ Restart

SpecRequest == Init /\ [][NextRequest]_vars

\* The POST /query requests of one client to a process that stays up.  The
\* event loop runs every task that can run: a store call and a model call
\* come back, a sleep ends, a free lock is given to the task that waits for it.
QuerySteps(t) ==
    \/ CreateSteps(t) \/ GsLock(t) \/ GsFind(t) \/ GhLock(t) \/ GmFind(t) \/ LlmSleep(t)
    \/ AddSteps(t)

NextRetry ==
    \/ \E t \in {1} : StartQuery(t) \/ QuerySteps(t)
    \/ NotifyRun

SpecRetry == Init /\ [][NextRetry]_vars /\ WF_vars(QuerySteps(1))

\* One client that sends POST /query and POST /summarize/{session_id}, each
\* when the one before has returned, beside the notification tasks and
\* restarts of the process.
NextContext ==
    \/ \E t \in {1} :
        \/ StartQuery(t) \/ StartSummarize(t)
        \/ CreateSteps(t) \/ GetSteps(t) \/ GhLock(t) \/ GmFind(t) \/ LlmSleep(t)
        \/ AddSteps(t)
        \/ SummarizeSteps(t)
    \/ NotifyRun
    \/ Restart

SpecContext == Init /\ [][NextContext]_vars

\* POST /summarize/{session_id} from any number of tasks at once, on the
\* sessions that create_session makes and on other ids.
NextSummarize ==
    \E t \in Tasks :
        \/ StartCreate(t) \/ StartSummarize(t)
        \/ CreateSteps(t) \/ SummarizeSteps(t)

SpecSummarize == Init /\ [][NextSummarize]_vars

\* One client that calls create_session, get_session and POST
\* /summarize/{session_id}, each when the one before has returned, and restarts
\* of the process.
NextRecords ==
    \/ \E t \in {1} :
        \/ StartCreate(t) \/ StartGet(t) \/ StartSummarize(t)
        \/ CreateSteps(t) \/ GetSteps(t) \/ SummarizeSteps(t)
    \/ Restart

SpecRecords == Init /\ [][NextRecords]_vars

\* One task calls create_session, get_session and add_to_conversation, each
\* when the one before has returned; at the same time another task calls
\* delete_session on the sessions that are in the store.
NextDelete ==
    \/ \E t \in {1} :
        \/ StartCreate(t) \/ StartGet(t) \/ StartAdd(t)
        \/ CreateSteps(t) \/ GetSteps(t) \/ AddSteps(t)
    \/ \E t \in {2} : StartDeleteKnown(t) \/ DeleteSteps(t)

SpecDelete == Init /\ [][NextDelete]_vars

\* One task sends POST /query requests, each when the one before has returned;
\* at the same time another task calls delete_session on the sessions that are
\* in the store.  The process stays up and the event loop
\* runs every task that can run: every store call and model call comes back,
\* every sleep ends, a free lock is given to the task that waits for it, and
\* a notification task that was started runs.
RequestSteps(t) ==
    \/ CreateSteps(t) \/ GetSteps(t) \/ HistorySteps(t) \/ GmFind(t) \/ LlmSleep(t)
    \/ AddSteps(t)

NextLive ==
    \/ \E t \in {1} : StartQuery(t) \/ RequestSteps(t)
    \/ \E t \in {2} : StartDeleteKnown(t) \/ DeleteSteps(t)
    \/ NotifyRun

SpecLive ==
    /\ Init /\ [][NextLive]_vars
    /\ WF_vars(RequestSteps(1)) /\ WF_vars(DeleteSteps(2)) /\ WF_vars(NotifyRun)

\* create_session with a store whose insert_one can fail, beside get_session,
\* from any number of tasks, and restarts of the process.
NextCreateFails ==
    \/ \E t \in Tasks :
        \/ StartCreate(t) \/ StartGet(t)
        \/ CreateSteps(t) \/ CsInsertFails(t) \/ GetSteps(t)
    \/ Restart

SpecCreateFails == Init /\ [][NextCreateFails]_vars

\* ================================================================ claims
TurnsIn(h) == [j \in 1..(Len(h) \div 2) |-> <<h[2 * j - 1], h[2 * j]>>]
CountIn(s, x) == Cardinality({j \in DOMAIN s : s[j] = x})
Resident == {id \in SessionIds : sessions[id] # NoSession}
\* the turns of the conversation entries of id, in insertion order
WrittenTurns(id) ==
    LET es == EntriesOf(conversations_collection, id)
    IN [j \in DOMAIN es |-> <<es[j].user_query, es[j].bot_response>>]
\* the add_to_conversation calls on id that have appended and not yet inserted
Appended(id) ==
    {t \in Tasks : At(t, "ac_insert", "add") /\ tasks[t].sid = id}

\* C1: concurrent add_to_conversation calls on one session: the in-memory
\* history holds exactly one (user query, bot response) pair, adjacent and in
\* this order, for every call that has appended (those whose conversation entry
\* is written and those still to write it); nothing else, nothing twice.
C1_ConcurrentTurns ==
    \A id \in Resident :
        LET h == sessions[id].query_history IN
        /\ Len(h) = 2 * (Len(WrittenTurns(id)) + Cardinality(Appended(id)))
        /\ \A turn \in AddTurns :
             CountIn(TurnsIn(h), turn) =
                 CountIn(WrittenTurns(id), turn)
                 + Cardinality({t \in Appended(id) : <<tasks[t].uq, tasks[t].br>> = turn})

\* two calls on one session that overlapped (the entries were written in the
\* other order than the history was extended) and have both returned
C1_Witness ==
    \E id \in Resident :
        /\ \A t \in Tasks : /\ tasks[t].pc = "done" /\ OpOf(tasks[t]) = "add"
                            /\ tasks[t].sid = id /\ tasks[t].res.k = "None"
        /\ Len(sessions[id].query_history) = 2 * NumTasks
        /\ WrittenTurns(id) # TurnsIn(sessions[id].query_history)

\* C2: with one caller, whenever no call is in flight the history of every
\* cached session has two items per conversation entry written for it and is
\* the flattening of those entries in timestamp order, which is what
\* get_session builds when the session has left the cache; a session that
\* get_session has just rehydrated has this same history.
C2_HistoryRoundTrip ==
    Quiet =>
        \A id \in Resident :
            LET h == sessions[id].query_history IN
            /\ Len(h) = 2 * Len(EntriesOf(conversations_collection, id))
            /\ h = LoadHistory(conversations_collection, id)
            /\ TurnsIn(h) = WrittenTurns(id)

\* get_session has rehydrated a session of two turns written at different times
C2_Witness ==
    \E t \in Tasks :
        /\ tasks[t].pc = "done" /\ OpOf(tasks[t]) = "get"
        /\ tasks[t].res.k = "Session" /\ tasks[t].res.src = "store"
        /\ Len(sessions[tasks[t].sid].query_history) = 4
        /\ LET es == EntriesOf(conversations_collection, tasks[t].sid)
           IN es[1].timestamp < es[2].timestamp /\ es[1].user_query # es[2].user_query

IsPrefix(a, b) == Len(a) <= Len(b) /\ SubSeq(b, 1, Len(a)) = a
AddMidFlight == \E t \in Tasks : tasks[t].pc = "ac_lock" /\ lock = t

\* C3: the history of a cached session has even length whenever no
\* add_to_conversation is inside its locked region, and while an id stays in
\* the cache its history only grows at the end: every step leaves the old
\* history a prefix of the new one.
C3_EvenAndAppendOnly ==
    /\ [](~AddMidFlight => \A id \in Resident : Len(sessions[id].query_history) % 2 = 0)
    /\ [][\A id \in SessionIds :
            (sessions[id] # NoSession /\ sessions'[id] # NoSession)
            => IsPrefix(sessions[id].query_history, sessions'[id].query_history)]_vars

AwaitsLock(t) ==
    tasks[t].pc \in {"cs_lock", "gs_lock", "gs_install", "ac_lock", "gh_lock",
                     "ls_lock", "ds_lock"}
\* the task awaits the lock that it holds itself
SelfBlocked(t) == AwaitsLock(t) /\ lock = t
Unknown(id) == sessions[id] = NoSession /\ ~sessions_collection[id].present

\* C4: add_to_conversation on an id that neither the cache nor the store knows
\* ends with ValueError("Session not found") and leaves the lock free: the call
\* is never left waiting for the lock it holds, and when it has returned its
\* outcome is the ValueError.
C4_AddToUnknownSession ==
    \A t \in Tasks :
        (OpOf(tasks[t]) = "add" /\ Unknown(tasks[t].sid))
        => /\ ~SelfBlocked(t)
           /\ tasks[t].pc = "done" => tasks[t].res.k = "ValueError"


\* C5: get_session never hands back a session that is expired at the moment
\* of the return, and a get_session that meets an expired session goes on to
\* evict it and return "not found": it is never left waiting for the lock it
\* holds.
C5_LazyExpiration ==
    /\ [][\A t \in Tasks :
            (/\ tasks[t].pc # "done" /\ tasks'[t].pc = "done"
             /\ OpOf(tasks'[t]) = "get" /\ tasks'[t].res.k = "Session")
            => ~(now' - tasks'[t].res.created_at > ExpirationDelta)]_vars
    /\ [](\A t \in Tasks : tasks[t].stack = <<"get", "delete">> => ~SelfBlocked(t))

StoreLabels ==
    {"cs_insert", "gs_find", "gs_convs", "ac_insert", "ac_update", "gh_convs",
     "ls_find", "ds_one", "ds_many", "gm_find"}

\* C6: no task holds the cache lock while it awaits a call to the store.
C6_NoStoreCallUnderLock ==
    \A t \in Tasks : tasks[t].pc \in StoreLabels => lock # t

Done(t, fn) == tasks[t].pc = "done" /\ OpOf(tasks[t]) = fn
NoTrace(id) ==
    /\ sessions[id] = NoSession
    /\ ~sessions_collection[id].present
    /\ EntriesOf(conversations_collection, id) = <<>>

\* C7: with one caller, delete_session(id) raises nothing, whether id is
\* present or absent (so also when called again right after itself); when it has
\* returned, the cache holds no session for id and the store neither a session
\* document nor a conversation entry for id; and no step of it changes the
\* cache entry, the document or the conversation entries of another id.
C7_DeleteIdempotent ==
    /\ [](\A t \in Tasks : Done(t, "delete") =>
             tasks[t].res.k = "None" /\ NoTrace(tasks[t].sid))
    /\ [][\A t \in Tasks :
            (/\ OpOf(tasks[t]) = "delete" /\ ~Idle(t)
             /\ tasks'[t] # tasks[t] /\ tasks'[t].pc # "idle")
            => \A id \in SessionIds \ {tasks[t].sid} :
                 /\ sessions'[id] = sessions[id]
                 /\ sessions_collection'[id] = sessions_collection[id]
                 /\ EntriesOf(conversations_collection', id)
                    = EntriesOf(conversations_collection, id)]_vars

\* delete_session(id) has returned for the second time in a row, for an id that
\* had a session, while the other session still has its turn
C7_Witness ==
    \E t \in Tasks :
        /\ Done(t, "delete") /\ tasks[t].chain.k = "delete_again"
        /\ tasks[t].sid < next_uuid
        /\ \E id \in Resident : EntriesOf(conversations_collection, id) # <<>>

\* C8: what list_sessions returns has one entry per identifier; the
\* identifiers are those in the cache and those of the store's sessions that
\* are not expired (created_at not before the threshold now - expiration window
\* of the call); an identifier in the cache is listed with the cached object.
C8_ListSessions ==
    \A t \in Tasks :
        (Done(t, "list") /\ tasks[t].res.k = "sessions") =>
            LET l == tasks[t].res.list
                unexpired == {id \in SessionIds :
                                 /\ sessions_collection[id].present
                                 /\ sessions_collection[id].created_at >= tasks[t].thr}
            IN /\ {e.sid : e \in l} = Resident \cup unexpired
               /\ \A e1, e2 \in l : e1.sid = e2.sid => e1 = e2
               /\ \A e \in l : e.sid \in Resident =>
                      e.src = "cache" /\ e.created_at = sessions[e.sid].created_at

\* C9: with one caller, when create_session has returned, the new id is in the
\* cache with an empty history, in the store with the same created_at, and has
\* no conversation entry; a get_session of that id called right after gives a
\* session with the same created_at and an empty history.
C9_CreateThenGet ==
    \A t \in Tasks :
        /\ (Done(t, "create") /\ tasks[t].res.k = "Session") =>
              LET id == tasks[t].res.sid IN
              /\ sessions[id] = Session(tasks[t].res.created_at, <<>>)
              /\ sessions_collection[id].present
              /\ sessions_collection[id].created_at = tasks[t].res.created_at
              /\ EntriesOf(conversations_collection, id) = <<>>
        /\ (Done(t, "get") /\ tasks[t].chain.k = "get_created") =>
              /\ tasks[t].res.k = "Session"
              /\ tasks[t].res.sid = tasks[t].sid
              /\ tasks[t].res.created_at = tasks[t].chain.at
              /\ sessions[tasks[t].sid].query_history = <<>>

\* get_session has returned for the id that the create_session right before it
\* gave, some time after another session was created
C9_Witness ==
    \E t \in Tasks :
        /\ Done(t, "get") /\ tasks[t].chain.k = "get_created"
        /\ tasks[t].res.k = "Session" /\ tasks[t].res.created_at > 0

\* C10: a handle_query that returns a response has extended the history of its
\* session by one turn, in one step, and that turn is the query of the request
\* followed by the very text of the response; the conversation entry written
\* for it holds the same two texts.  So on the FAQ path, the path of a
\* satisfactory model answer, the escalation path and the fallback path.
C10_TurnPersisted ==
    /\ [](\A t \in Tasks :
            (Done(t, "query") /\ tasks[t].res.k = "QueryResponse") =>
                /\ tasks[t].appended = 1
                /\ tasks[t].uq.k = "user" /\ tasks[t].uq.q \in Queries
                /\ tasks[t].br = tasks[t].res.text
                /\ \E j \in DOMAIN conversations_collection :
                     /\ conversations_collection[j].session_id = tasks[t].res.sid
                     /\ conversations_collection[j].user_query = tasks[t].uq
                     /\ conversations_collection[j].bot_response = tasks[t].res.text)
    /\ [][\A t \in Tasks :
            (/\ OpOf(tasks[t]) = "query" /\ ~Idle(t) /\ tasks'[t].pc # "idle"
             /\ tasks'[t].appended # tasks[t].appended)
            => /\ tasks'[t].appended = tasks[t].appended + 1
               /\ tasks'[t].uq = tasks[t].uq /\ tasks'[t].br = tasks[t].br
               /\ sessions'[tasks[t].sid].query_history
                  = sessions[tasks[t].sid].query_history \o <<tasks[t].uq, tasks[t].br>>]_vars

\* two requests on one session have returned: an escalation, whose note
\* renders the turn before it, and a fallback after the model failed
C10_Witness ==
    \E t, u \in Tasks :
        /\ Done(t, "query") /\ tasks[t].res.k = "QueryResponse"
        /\ tasks[t].res.esc /\ tasks[t].res.text.k = "note"
        /\ Done(u, "query") /\ tasks[u].res.k = "QueryResponse"
        /\ tasks[u].res.text = ApologyText
        /\ tasks[u].res.sid = tasks[t].res.sid
        /\ Len(sessions[tasks[t].res.sid].query_history) = 4

IsQuery(t) == OpOf(tasks[t]) = "query" /\ ~Idle(t)
\* task t makes a step of its request (the process does not restart)
StepOf(t) == tasks'[t] # tasks[t] /\ tasks'[t].pc # "idle"
Resolving(t) == IsQuery(t) /\ tasks[t].stack = <<"query", "get">>

\* C11: a POST /query with a session id that neither the cache nor the store
\* knows ends with HTTP 404 and changes nothing: no step of the request touches
\* the cache, the two collections, the lock, the identifiers or the
\* notification tasks, and it has called neither the FAQ matcher nor the model
\* nor add_to_conversation.  A request without session id creates a session
\* (a new identifier, in the cache and in the store) and returns that id.
C11_UnknownSession404 ==
    /\ [](\A t \in Tasks :
            (Done(t, "query") /\ tasks[t].res.k = "HTTP404") =>
                /\ tasks[t].chain.k = "given"
                /\ tasks[t].faq_calls = 0 /\ tasks[t].attempt = 0
                /\ tasks[t].notified = 0 /\ tasks[t].appended = 0)
    /\ [](\A t \in Tasks :
            (Done(t, "query") /\ tasks[t].res.k = "QueryResponse"
             /\ tasks[t].chain.k = "new") =>
                /\ tasks[t].res.sid = tasks[t].sid
                /\ tasks[t].res.sid \in 1..(next_uuid - 1)
                /\ sessions_collection[tasks[t].res.sid].present)
    /\ [][\A t \in Tasks :
            /\ (Resolving(t) /\ StepOf(t) /\ tasks[t].pc = "gs_find"
                 /\ ~sessions_collection[tasks[t].sid].present)
               => /\ tasks'[t].pc = "done" /\ tasks'[t].res.k = "HTTP404"
            /\ (Resolving(t) /\ StepOf(t) /\ tasks'[t].pc \in {"gs_find", "done"})
               => UNCHANGED <<sessions, sessions_collection, conversations_collection,
                              lock, next_uuid, notify_tasks>>
            /\ (IsQuery(t) /\ StepOf(t) /\ tasks[t].pc = "cs_lock")
               => /\ sessions[next_uuid] = NoSession
                  /\ tasks'[t].sid = next_uuid /\ next_uuid' = next_uuid + 1
                  /\ sessions'[next_uuid] = Session(now, <<>>)]_vars

\* a request on an unknown id has ended with 404, after a request without id
\* had created a session and persisted its turn
C11_Witness ==
    \E t \in Tasks :
        /\ Done(t, "query") /\ tasks[t].res.k = "HTTP404" /\ Unknown(tasks[t].sid)
        /\ next_uuid = 2 /\ sessions_collection[1].present
        /\ Len(conversations_collection) = 1

FaqHit(t) ==
    /\ OpOf(tasks[t]) = "query" /\ tasks[t].faq_calls = 1
    /\ FaqAnswerFor(tasks[t].uq.q) # NoText

Responded(t) == Done(t, "query") /\ tasks[t].res.k = "QueryResponse"

\* C13: a handle_query that returns has escalated = true exactly when the FAQ
\* had no answer, a model call succeeded and is_unsatisfactory holds of the
\* model's text; then the response is the escalation note of the query, not the
\* model's text nor the canned text of generate_response, and the request
\* has started one notification task; otherwise escalated = false and it has
\* started none.  Every notification task is started by such a step.
C13_EscalatedIff ==
    /\ [](\A t \in Tasks :
            Responded(t) =>
                LET r == tasks[t].res
                    raw == tasks[t].raw
                IN /\ r.esc <=> /\ FaqAnswerFor(tasks[t].uq.q) = NoText
                                /\ raw.k = "llm"
                                /\ TextIsUnsatisfactory[raw.q]
                   /\ r.esc => /\ r.text.k = "note" /\ r.text.h[5] = tasks[t].uq
                               /\ r.text # raw
                               /\ tasks[t].notified = 1
                   /\ ~r.esc => /\ tasks[t].notified = 0
                                /\ r.text.k \in {"faq", "llm", "apology"})
    /\ [][\A t \in Tasks :
            (IsQuery(t) /\ StepOf(t)) =>
                /\ notify_tasks' - notify_tasks = tasks'[t].notified - tasks[t].notified
                /\ tasks'[t].notified # tasks[t].notified
                   => ~tasks[t].esc /\ tasks'[t].esc]_vars

\* a request has returned escalated with its note, on a session whose turn
\* before holds the model's satisfactory text
C13_Witness ==
    \E t \in Tasks :
        /\ Responded(t) /\ tasks[t].res.esc /\ tasks[t].res.text.k = "note"
        /\ tasks[t].raw.k = "llm" /\ tasks[t].notified = 1
        /\ Len(sessions[tasks[t].res.sid].query_history) = 4
        /\ sessions[tasks[t].res.sid].query_history[2].k = "llm"

\* every turn of the retry loop of the request has failed
AllFailed(t) ==
    /\ OpOf(tasks[t]) = "query" /\ tasks[t].pc # "llm_sleep"
    /\ tasks[t].attempt = max_retries /\ tasks[t].raw.k = "fail"
ApologyResponse(t) ==
    /\ Responded(t)
    /\ tasks[t].res = ResResponse(ApologyText, tasks[t].sid, FALSE)

\* C14: when every attempt of the model call has failed, generate_response
\* gives handle_query the apology text with escalated = false (no exception
\* reaches the request, no notification is started), and handle_query goes on
\* to persist the turn and returns a response with that text.
C14_AllAttemptsFail ==
    /\ [](\A t \in Tasks :
            AllFailed(t) =>
                /\ tasks[t].notified = 0
                /\ tasks[t].pc # "done" =>
                     /\ tasks[t].response_text = ApologyText /\ ~tasks[t].esc
                     /\ tasks[t].br = ApologyText
                /\ tasks[t].pc = "done" => ApologyResponse(t))
    /\ (AllFailed(1) ~> ApologyResponse(1))

\* a request has returned the apology after three failed attempts and has
\* persisted it as the second turn of its session
C14_Witness ==
    \E t \in Tasks :
        /\ AllFailed(t) /\ ApologyResponse(t)
        /\ tasks[t].appended = 1
        /\ Len(sessions[tasks[t].res.sid].query_history) = 4
        /\ sessions[tasks[t].res.sid].query_history[4] = ApologyText

InRetryLoop(t) == IsQuery(t) /\ tasks[t].pc \in {"gm_find", "llm_sleep"}

\* C15: the retry loop makes at most max_retries model calls and always
\* ends.  Every turn makes one call; a call that succeeds ends the loop with its
\* result; a failed attempt k < max_retries is followed by a sleep of
\* retry_delay * 2^(k-1) and attempt k + 1; the failure of attempt max_retries
\* is followed by no sleep and ends the loop as a failure.
C15_RetryBounded ==
    /\ [](\A t \in Tasks :
            /\ tasks[t].attempt <= max_retries
            /\ tasks[t].pc = "llm_sleep" =>
                 /\ tasks[t].attempt \in 1..(max_retries - 1)
                 /\ tasks[t].raw.k = "fail"
                 /\ tasks[t].delay = retry_delay * 2 ^ (tasks[t].attempt - 1))
    /\ [][\A t \in Tasks :
            /\ (InRetryLoop(t) /\ StepOf(t)) =>
                 /\ tasks'[t].attempt = tasks[t].attempt + 1
                 /\ tasks'[t].raw \in LlmOutcomes
                 /\ tasks'[t].pc = "llm_sleep"
                    <=> (tasks'[t].raw.k = "fail" /\ tasks'[t].attempt < max_retries)
                 /\ tasks'[t].raw.k = "llm" =>
                      \/ tasks'[t].response_text = tasks'[t].raw
                      \/ tasks'[t].esc
                 /\ (tasks'[t].raw.k = "fail" /\ tasks'[t].attempt = max_retries)
                    => tasks'[t].response_text = ApologyText
            /\ (IsQuery(t) /\ StepOf(t) /\ ~InRetryLoop(t)) =>
                 tasks'[t].attempt = tasks[t].attempt]_vars
    /\ (InRetryLoop(1) ~> ~InRetryLoop(1))

\* a request has returned the model's text of its third attempt, after the
\* sleeps of 2 and 4
C15_Witness ==
    \E t \in Tasks :
        /\ Responded(t) /\ tasks[t].attempt = max_retries
        /\ tasks[t].raw.k = "llm" /\ tasks[t].res.text = tasks[t].raw

\* a step of a notification task: no request task moves
NotifyStep ==
    /\ tasks' = tasks
    /\ last_notify' \in NotifyOutcomes
    /\ <<notify_tasks, last_notify, call>>' # <<notify_tasks, last_notify, call>>
Escalating(t) == IsQuery(t) /\ tasks[t].notified > 0

\* C16: the notification is fire-and-forget.  A request starts at most one
\* notification task; a notification task runs once, whether it ends well or
\* fails, and its step changes nothing of the requests, the cache, the lock or
\* the store.  The request that started it goes on without it (its next step
\* waits for nothing but the cache lock), keeps its response text, session id
\* and escalated flag in every step, and returns exactly these and has
\* persisted exactly this text, whatever became of the notification.
C16_FireAndForget ==
    /\ [](\A t \in Tasks :
            /\ tasks[t].notified <= 1
            /\ (Escalating(t) /\ lock = 0) => ENABLED AddSteps(t)
            /\ (Escalating(t) /\ tasks[t].pc # "ac_lock") => ENABLED AddSteps(t))
    /\ [][NotifyStep =>
            /\ notify_tasks' = notify_tasks - 1
            /\ UNCHANGED <<sessions, lock, sessions_collection,
                           conversations_collection, now, next_uuid, lastDone>>]_vars
    /\ [][\A t \in Tasks :
            (Escalating(t) /\ StepOf(t)) =>
                /\ tasks'[t].notified = tasks[t].notified
                /\ notify_tasks' = notify_tasks /\ last_notify' = last_notify
                /\ tasks'[t].pc # "done" =>
                     /\ tasks'[t].response_text = tasks[t].response_text
                     /\ tasks'[t].br = tasks[t].response_text
                     /\ tasks'[t].esc /\ tasks'[t].sid = tasks[t].sid
                /\ tasks'[t].pc = "done" =>
                     /\ tasks'[t].res
                        = ResResponse(tasks[t].response_text, tasks[t].sid, TRUE)
                     /\ \E j \in DOMAIN conversations_collection' :
                          /\ conversations_collection'[j].session_id = tasks[t].sid
                          /\ conversations_collection'[j].bot_response
                             = tasks[t].response_text]_vars

\* an escalated request has returned its note while its notification has
\* not run; the notification of the escalated request before it had failed
C16_Witness ==
    \E t \in Tasks :
        /\ Responded(t) /\ tasks[t].res.esc /\ tasks[t].res.text.k = "note"
        /\ last_notify = "failed" /\ notify_tasks = 1
        /\ Len(sessions[tasks[t].res.sid].query_history) = 4
        /\ sessions[tasks[t].res.sid].query_history[2].k = "note"

Returned(fn) == call.fn = fn /\ call.pc = "done"

\* C17: is_unsatisfactory returns a value for every text; the value is true
\* exactly when a trigger phrase occurs in the text with its case ignored; it
\* is false for the empty text; and the call has no effect: nothing is printed.
C17_IsUnsatisfactory ==
    Returned("is_unsatisfactory") =>
        /\ call.ok \in BOOLEAN
        /\ call.ok <=> \E phrase \in ESCALATION_TRIGGER_PHRASES :
                          Occurs(Lowered(phrase), Lowered(call.text))
        /\ call.text = <<>> => ~call.ok
        /\ call.stdout = <<>>

ArgumentsKept == [][call'.history = call.history /\ call'.query = call.query]_vars

\* C18: for a history of n items, of even or odd length,
\* build_conversational_prompt returns n + 2 messages: the system message, the
\* n items in their order, the item at an even index (from 0) as "user" and at
\* an odd index as "assistant", and last a "user" message with the new query.
C18_PromptMessages ==
    Returned("build_conversational_prompt") =>
        LET n == Len(call.history)
            m == call.messages
        IN /\ Len(m) = n + 2
           /\ m[1].role = "system"
           /\ \A j \in 1..n :
                 m[j + 1] = [role |-> IF j % 2 = 1 THEN "user" ELSE "assistant",
                             content |-> call.history[j]]
           /\ m[n + 2] = [role |-> "user", content |-> call.query]

\* the prompt of a history of three items, the last one without a reply
C18_Witness ==
    /\ Returned("build_conversational_prompt")
    /\ Len(call.history) = 3 /\ Len(call.messages) = 5
    /\ call.messages[4].role = "user" /\ call.messages[5].role = "user"

\* C19: for a history of n items create_escalation_note renders the query and
\* ceil(n/2) pairs of a "User:" and a "Bot:" line in the order of the history,
\* pair j (from 0) holding history[2j] and history[2j+1]; for odd n the "Bot:"
\* line of the last pair holds "<No reply>"; the history given is left as it was.
C19_EscalationNote ==
    /\ [](Returned("create_escalation_note") =>
            LET n == Len(call.history)
                pairs == (n + 1) \div 2
                L == call.note.h
            IN /\ call.note.k = "note"
               /\ Len(L) = 9 + 3 * pairs
               /\ L[5] = call.query
               /\ Cardinality({i \in DOMAIN L : L[i].k = "User: "}) = pairs
               /\ Cardinality({i \in DOMAIN L : L[i].k = "Bot: "}) = pairs
               /\ \A j \in 0..(pairs - 1) :
                     /\ L[8 + 3 * j] = [k |-> "User: ", q |-> "", h |-> <<call.history[2 * j + 1]>>]
                     /\ L[9 + 3 * j] =
                          [k |-> "Bot: ", q |-> "",
                           h |-> <<IF 2 * j + 2 <= n THEN call.history[2 * j + 2]
                                   ELSE Line("<No reply>")>>])
    /\ ArgumentsKept

\* the note of a history of three items: two pairs, the second with the
\* sentinel
C19_Witness ==
    /\ Returned("create_escalation_note")
    /\ Len(call.history) = 3
    /\ call.note.h[12] = BotLine(NoReply) /\ call.note.h[9] = BotLine(call.history[2])

C21_FaqLoadedOnce == faq_loads <= 1

\* ------------------------------------------------------------------ C22
\* C22: when all concurrent add_to_conversation calls have completed, the
\* conversation entries of every cached session, read in timestamp order as
\* get_session reads them, give the turns in the order of the in-memory history.
C22_StoreOrderUnderConcurrency ==
    Quiet =>
        \A id \in Resident :
            LoadHistory(conversations_collection, id) = sessions[id].query_history

\* ------------------------------------------------------------------ C23
\* the request has put together the context of its model call
HasContext(t) == IsQuery(t) /\ tasks[t].attempt >= 1
IsMemory(item) == item.k = "Summary: "

\* C23: in the messages built for the model call of a request, from the
\* contextual memory followed by the conversation history, the items keep their
\* order behind the system message, every memory entry stands before every
\* history item, and whatever the length of the memory every stored user query
\* is tagged "user" and every stored bot response "assistant".
C23_ContextMessages ==
    \A t \in Tasks :
        HasContext(t) =>
            LET full_context == tasks[t].ctx
                messages == build_conversational_prompt(tasks[t].uq, full_context)
            IN /\ Len(messages) = Len(full_context) + 2
               /\ \A j \in DOMAIN full_context :
                    /\ messages[j + 1].content = full_context[j]
                    /\ IsMemory(full_context[j]) =>
                           \A i \in 1..(j - 1) : IsMemory(full_context[i])
                    /\ full_context[j].k = "user" => messages[j + 1].role = "user"
                    /\ (~IsMemory(full_context[j]) /\ full_context[j].k # "user")
                           => messages[j + 1].role = "assistant"

\* ------------------------------------------------------------------ C24
MemoryOf(coll, id) == coll[id].contextual_memory
\* store_session_summary of task t completes in this step
SummaryStored(t) == At(t, "sm_update", "summarize") /\ tasks'[t].pc = "done"

\* C24: contextual memory is append-only: the step that completes a
\* store_session_summary(id, s) leaves the memory of id as it was and puts one
\* entry for s behind it, also when other summarize calls run at the same time.
C24_MemoryAppendOnly ==
    [][\A t \in Tasks :
          SummaryStored(t) =>
              MemoryOf(sessions_collection', tasks[t].sid)
              = MemoryOf(sessions_collection, tasks[t].sid)
                \o <<SummaryEntry(tasks[t].summary_text)>>]_vars

\* ------------------------------------------------------------------ C28
\* C28: every session document in the store has a created_at and was written
\* by create_session: a document appears only in the insert of a
\* create_session for its id; so a summarize of an id without document leaves
\* it without one, and get_session ends with a session or with "not found",
\* never with the failure of reading created_at.
C28_SessionRecords ==
    /\ [](\A id \in SessionIds :
             sessions_collection[id].present => sessions_collection[id].created_at # -1)
    /\ [](\A t \in Tasks : Done(t, "get") => tasks[t].res.k \in {"None", "Session"})
    /\ [][\A id \in SessionIds :
            (~sessions_collection[id].present /\ sessions_collection'[id].present)
            => \E t \in Tasks : At(t, "cs_insert", "create") /\ tasks[t].sid = id]_vars

\* ------------------------------------------------------------------ C25
\* C25: deletion is complete under concurrency: whenever no call is in flight,
\* a delete_session(id) that has returned has left no session for id in the
\* cache and neither a session document nor a conversation entry for id in the
\* store, and every conversation entry in the store belongs to a session
\* document that exists.
C25_DeleteComplete ==
    Quiet =>
        /\ \A t \in Tasks : Done(t, "delete") => NoTrace(tasks[t].sid)
        /\ \A j \in DOMAIN conversations_collection :
              sessions_collection[conversations_collection[j].session_id].present

\* ------------------------------------------------------------------ C26
\* C26: deadlock freedom: when every store call and model call returns, every
\* request and every call of the session manager that has started comes to
\* its end, and the cache lock is released after every acquisition, also when
\* delete_session runs between the get_session and the add_to_conversation
\* of a request.
C26_DeadlockFree ==
    /\ \A t \in Tasks : (~Idle(t)) ~> Idle(t)
    /\ (lock # 0) ~> (lock = 0)

\* ------------------------------------------------------------------ C27
\* create_session of task t has ended with the failure of its insert
CreateFailed(t) == Done(t, "create") /\ tasks[t].res.k = "PyMongoError"

\* C27: when the insert of create_session fails, the caller gets the failure,
\* the cache lock is released and the cache holds no session for the id that
\* was drawn: no session is in the cache without a document in the store.
C27_CreateInsertFails ==
    /\ [][\A t \in Tasks :
            (At(t, "cs_insert", "create") /\ tasks'[t].pc = "done"
             /\ ~sessions_collection'[tasks[t].sid].present)
            => /\ tasks'[t].res.k = "PyMongoError"
               /\ lock' = 0
               /\ sessions'[tasks[t].sid] = NoSession]_vars
    /\ [](\A t \in Tasks : CreateFailed(t) => sessions[tasks[t].sid] = NoSession)

====
